---- MODULE Spec2Model ----
(***************************************************************************)
(* Model of food_gacha (src/app.py): the menu "gacha".                     *)
(*                                                                         *)
(* Genres and role groups are written in romaji:                           *)
(*   wa / yo / chu / sonota  : the four GENRES, "jidou" : automatic genre  *)
(*   shusai (main) / fukusai (side) / shushoku (staple) /                  *)
(*   nyuseihin (dairy) / kudamono (fruit) : the five GROUPS                *)
(* Python's None is the string "None".                                     *)
(* Real numbers are scaled integers: option weights in tenths (the form's  *)
(* step is 0.1), genre bonuses in hundredths, the cover factor in tenths.  *)
(***************************************************************************)
EXTENDS Integers, Sequences, FiniteSets, TLC

VARIABLES
    items,            \* the catalog snapshot (load_items_cached)
    pc,               \* position: idle / loop / after / sort / pick / returned
    caller,           \* who called generate_candidates: "handler" or "direct"
    preferred,        \* preferred_genre
    counts,           \* counts: group -> requested number
    difficulty_range, \* <<dmin, dmax>>
    pick_mode,        \* pick_mode of resolve_difficulty_preset
    bases,            \* result of feasible_auto_base_genres
    base_genre,       \* base genre of automatic mode, or None
    tries,            \* number of trials of this call
    keep,             \* number of candidates kept
    trial,            \* trials finished so far
    remaining,        \* roles still to cover in the current trial
    chosen_ids,       \* dish ids used in the current trial
    selection,        \* (dish, option) pairs of the current trial
    step,             \* iterations of the step loop done in this trial
    lastEnd,          \* how the last step loop ended
    unique,           \* signature -> best candidate, in insertion order
    trialLog,         \* history: the successful trials of this call, in order
    candidates,       \* list returned by generate_candidates
    picked,           \* result of pick_menu_from_candidates
    outcome,          \* what the last request reported
    called,           \* functions the current request has called
    recent_menu_sigs, \* session memory: recent signatures
    last_menu_ids,    \* session memory: ids of the last menu
    requests,         \* number of requests / calls made so far
    drawLog,          \* the successful draws of the session, oldest first
    db,               \* revision of the database: the number of writes done
    cache,            \* st.cache_data of load_items_cached: items_ver -> snapshot
    items_ver,        \* st.session_state["items_ver"] of every session
    loaded            \* what the last load of every session returned

vars == <<items, pc, caller, preferred, counts, difficulty_range, pick_mode,
          bases, base_genre, tries, keep, trial, remaining, chosen_ids, selection,
          step, lastEnd, unique, trialLog, candidates, picked, outcome,
          called, recent_menu_sigs, last_menu_ids, requests, drawLog,
          db, cache, items_ver, loaded>>

\* the variables of the gacha tab
gachaVars == <<items, pc, caller, preferred, counts, difficulty_range,
               pick_mode, bases, base_genre, tries, keep, trial, remaining,
               chosen_ids, selection, step, lastEnd, unique, trialLog,
               candidates, picked, outcome, called, recent_menu_sigs,
               last_menu_ids, requests, drawLog>>

---------------------------------------------------------------------------
(* Program constants *)

None == "None"

GENRES == <<"wa", "yo", "chu", "sonota">>

GROUPS == <<"shusai", "fukusai", "shushoku", "nyuseihin", "kudamono">>

\* tries=650, keep=260 are the defaults of generate_candidates
DefaultKeep == 260

\* pool = candidates[:90]
TopPool == 90

\* recent_menu_sigs keeps the last 8 signatures
RecentLen == 8

---------------------------------------------------------------------------
(* Bounds of the model *)

\* trials per direct call of generate_candidates (the code's default is 650)
MaxTries == 2

\* trials per call made by the gacha handler (650 in the code)
HandlerTries == 1

\* how far the longest candidate list of a direct call of
\* pick_menu_from_candidates goes beyond the top pool
PickExtra == 3

\* requests of a session that fills the session memory
MaxDraws == 10

\* dishes of a selection handed to score_selection directly
MaxSel == 3

\* requests per session
MaxRequests == 2

\* browser sessions that share the cache
NumSessions == 2

\* writes to the database
MaxWrites == 3

---------------------------------------------------------------------------
(* Sequence helpers *)

Range(s) == {s[i] : i \in 1..Len(s)}

InSeq(x, s) == \E i \in 1..Len(s) : s[i] = x

\* number of positions of s holding x
CountIn(x, s) == Cardinality({i \in 1..Len(s) : s[i] = x})

\* list.remove(x): drop the first occurrence
RemoveFirst(s, x) ==
    IF ~InSeq(x, s) THEN s
    ELSE LET k == CHOOSE i \in 1..Len(s) :
                      s[i] = x /\ \A j \in 1..(i - 1) : s[j] # x
         IN  SubSeq(s, 1, k - 1) \o SubSeq(s, k + 1, Len(s))

\* [x] * n
Repeat(x, n) == [i \in 1..n |-> x]

Max(a, b) == IF a >= b THEN a ELSE b

Min(a, b) == IF a <= b THEN a ELSE b

RECURSIVE SumSeq(_)
SumSeq(s) == IF s = <<>> THEN 0 ELSE Head(s) + SumSeq(Tail(s))

RECURSIVE Flatten(_)
Flatten(ss) == IF ss = <<>> THEN <<>> ELSE Head(ss) \o Flatten(Tail(ss))

\* sorted(set): the elements of a finite set of integers, ascending
RECURSIVE SortedSeq(_)
SortedSeq(S) ==
    IF S = {} THEN <<>>
    ELSE LET m == CHOOSE x \in S : \A y \in S : x <= y
         IN  <<m>> \o SortedSeq(S \ {m})

---------------------------------------------------------------------------
(* Types: RoleOption, MenuItem *)

\* RoleOption(groups, weight): weight in tenths
RoleOption(groups, weight) == [groups |-> groups, weight |-> weight]

\* MenuItem(id, genre, difficulty, role_options); the display name is left out
MenuItem(id, genre, difficulty, role_options) ==
    [id |-> id, genre |-> genre, difficulty |-> difficulty,
     role_options |-> role_options]

(* Catalogs the model loads.  As _load_items_from_db returns them: ordered by *)
(* id, ids distinct, every dish with at least one role option, every option  *)
(* with a non-empty list of distinct groups and a weight >= 0.1.             *)
CatalogMixed ==
    << MenuItem(1, "wa", 2, <<RoleOption(<<"shushoku">>, 10)>>),
       MenuItem(2, "yo", 3, <<RoleOption(<<"shusai">>, 10)>>),
       MenuItem(3, "chu", 3, <<RoleOption(<<"shushoku", "shusai">>, 15)>>),
       MenuItem(4, "yo", 2, <<RoleOption(<<"fukusai">>, 12)>>),
       MenuItem(5, "sonota", 1, <<RoleOption(<<"nyuseihin">>, 10),
                                  RoleOption(<<"kudamono">>, 3)>>),
       MenuItem(9, "chu", 3, <<RoleOption(<<"nyuseihin">>, 8)>>),
       MenuItem(12, "wa", 5, <<RoleOption(<<"shusai", "fukusai">>, 20)>>) >>

CatalogOther ==
    << MenuItem(6, "sonota", 2, <<RoleOption(<<"shushoku">>, 10)>>),
       MenuItem(7, "sonota", 3, <<RoleOption(<<"shusai">>, 10),
                                  RoleOption(<<"shusai", "fukusai">>, 1)>>),
       MenuItem(8, "sonota", 2, <<RoleOption(<<"fukusai">>, 10)>>) >>

CatalogEmpty == << >>

Catalogs == {CatalogMixed, CatalogOther, CatalogEmpty}

---------------------------------------------------------------------------
(* feasible_auto_base_genres *)

item_can_cover_group(it, group) ==
    \E k \in 1..Len(it.role_options) : InSeq(group, it.role_options[k].groups)

\* counts.get(g, 0)
CountOf(cnts, g) == IF g \in DOMAIN cnts THEN cnts[g] ELSE 0

InDifficulty(it, rng) == rng[1] <= it.difficulty /\ it.difficulty <= rng[2]

\* BaseIsFeasible without the difficulty test of line 308
BaseIsFeasible_IgnoresDifficulty(its, cnts, rng, base) ==
    LET required == SelectSeq(GROUPS, LAMBDA g : CountOf(cnts, g) > 0)
        allowed  == {base, "sonota"}
    IN  \A n \in 1..Len(required) :
            \E i \in 1..Len(its) :
                /\ its[i].genre \in allowed
                /\ item_can_cover_group(its[i], required[n])

BaseIsFeasible(its, cnts, rng, base) ==
    LET required == SelectSeq(GROUPS, LAMBDA g : CountOf(cnts, g) > 0)
        allowed  == {base, "sonota"}
    IN  \A n \in 1..Len(required) :
            \E i \in 1..Len(its) :
                /\ its[i].genre \in allowed
                /\ InDifficulty(its[i], rng)
                /\ item_can_cover_group(its[i], required[n])

feasible_auto_base_genres(its, cnts, rng) ==
    LET candidate_bases == SelectSeq(GENRES, LAMBDA g : g # "sonota")
    IN  SelectSeq(candidate_bases, LAMBDA b : BaseIsFeasible(its, cnts, rng, b))

---------------------------------------------------------------------------
(* _genre_cluster, _genre_policy *)

\* genre_cluster without the wa + chu cluster of lines 327-329
genre_cluster_NoCluster(genre, pref) == genre

genre_cluster(genre, pref) ==
    IF pref = "wa" /\ genre \in {"wa", "chu"} THEN "wachu" ELSE genre

\* allowed_genres of _genre_policy is None (no filter) or a set of genres:
\* HasGenreFilter tells which, AllowedGenres is the set
HasGenreFilter(pref, base) ==
    IF pref = None THEN FALSE
    ELSE IF pref = "jidou" THEN base # None
    ELSE pref \in {"wa", "yo", "chu", "sonota"}

\* AllowedGenres with the rule of wa copied to yo: chu let through
AllowedGenres_YoLetsChu(pref, base) ==
    IF pref = None THEN {}
    ELSE IF pref = "jidou" THEN (IF base = None THEN {} ELSE {base, "sonota"})
    ELSE IF pref = "wa" THEN {"wa", "chu", "sonota"}
    ELSE IF pref = "yo" THEN {"yo", "chu", "sonota"}
    ELSE IF pref = "chu" THEN {"chu", "sonota"}
    ELSE IF pref = "sonota" THEN {"sonota"}
    ELSE {}

AllowedGenres(pref, base) ==
    IF pref = None THEN {}
    ELSE IF pref = "jidou" THEN (IF base = None THEN {} ELSE {base, "sonota"})
    ELSE IF pref = "wa" THEN {"wa", "chu", "sonota"}
    ELSE IF pref = "yo" THEN {"yo", "sonota"}
    ELSE IF pref = "chu" THEN {"chu", "sonota"}
    ELSE IF pref = "sonota" THEN {"sonota"}
    ELSE {}

\* bonus_map of _genre_policy in hundredths: a function on the mapped genres
BonusMap(pref, base) ==
    IF pref = None THEN << >>
    ELSE IF pref = "jidou" THEN
        (IF base = None THEN << >>
         ELSE [g \in {base, "sonota"} |-> IF g = "sonota" THEN 96 ELSE 118])
    ELSE IF pref = "wa" THEN
        [g \in {"wa", "chu", "sonota"} |->
            IF g = "wa" THEN 132 ELSE IF g = "chu" THEN 70 ELSE 30]
    ELSE IF pref = "yo" THEN
        [g \in {"yo", "sonota"} |-> IF g = "yo" THEN 128 ELSE 30]
    ELSE IF pref = "chu" THEN
        [g \in {"chu", "sonota"} |-> IF g = "chu" THEN 128 ELSE 30]
    ELSE IF pref = "sonota" THEN [g \in {"sonota"} |-> 100]
    ELSE << >>

genre_policy(pref, base) ==
    [filtered |-> HasGenreFilter(pref, base),
     allowed |-> AllowedGenres(pref, base),
     bonus |-> BonusMap(pref, base)]

\* genre_bonus of generate_candidates, in hundredths
GenreBonus(bonus_map, genre) ==
    IF DOMAIN bonus_map = {} THEN 100
    ELSE IF genre \in DOMAIN bonus_map THEN bonus_map[genre] ELSE 90

---------------------------------------------------------------------------
(* score_selection, _selection_signature_and_ids, resolve_difficulty_preset *)
(* A selection is a sequence of pairs [it |-> dish, opt |-> role option].   *)

SelGenres(sel) == [n \in 1..Len(sel) |-> sel[n].it.genre]

HomogeneityTerm(sel, pref) ==
    IF sel = <<>> THEN 0
    ELSE LET clustered == [n \in 1..Len(sel) |->
                              genre_cluster(sel[n].it.genre, pref)]
             base == clustered[1]
             same == CountIn(base, clustered)
         IN  IF same = Len(clustered) THEN 6
             ELSE 2 * Max(0, same - 1) - (Len(clustered) - same)

PreferenceTerm(sel, pref) ==
    IF pref # None /\ pref # "jidou" THEN
        IF pref = "wa"
        THEN 2 * CountIn("wa", SelGenres(sel)) + CountIn("chu", SelGenres(sel))
        ELSE 2 * CountIn(pref, SelGenres(sel))
    ELSE 0

score_selection(sel, pref, target_dish_count) ==
    HomogeneityTerm(sel, pref) + PreferenceTerm(sel, pref)
        - Max(0, Len(sel) - target_dish_count)

SelectionIds(sel) == SortedSeq({sel[n].it.id : n \in 1..Len(sel)})

\* "-".join(str(x) for x in ids)
RECURSIVE JoinIds(_)
JoinIds(ids) ==
    IF ids = <<>> THEN ""
    ELSE IF Len(ids) = 1 THEN ToString(ids[1])
    ELSE ToString(ids[1]) \o "-" \o JoinIds(Tail(ids))

selection_signature_and_ids(sel) ==
    [sig |-> JoinIds(SelectionIds(sel)), ids |-> SelectionIds(sel)]

Presets == {None, "microwave", "usual", "deluxe", "chef"}

resolve_difficulty_preset(preset) ==
    IF preset = "microwave" THEN [range |-> <<1, 1>>, mode |-> "microwave"]
    ELSE IF preset = "usual" THEN [range |-> <<2, 3>>, mode |-> "usual"]
    ELSE IF preset = "deluxe" THEN [range |-> <<2, 4>>, mode |-> "deluxe"]
    ELSE IF preset = "chef" THEN [range |-> <<2, 5>>, mode |-> "chef"]
    ELSE [range |-> <<1, 5>>, mode |-> "auto"]

---------------------------------------------------------------------------
(* generate_candidates *)

\* needed: the flattened requirement, in GROUPS order
Needed(cnts) ==
    Flatten([n \in 1..Len(GROUPS) |->
                Repeat(GROUPS[n], Max(0, CountOf(cnts, GROUPS[n])))])

\* target_dish_count = sum(max(0, int(v)) for v in counts.values())
RECURSIVE SumPositive(_, _)
SumPositive(cnts, keys) ==
    IF keys = {} THEN 0
    ELSE LET k == CHOOSE k \in keys : TRUE
         IN  Max(0, cnts[k]) + SumPositive(cnts, keys \ {k})

\* TargetDishCount that counts the requested roles, not their slots
TargetDishCount_CountsRoles(cnts) ==
    Cardinality({g \in DOMAIN cnts : cnts[g] > 0})

TargetDishCount(cnts) == SumPositive(cnts, DOMAIN cnts)

\* range(max(10, len(remaining) * 3))
StepBudget(cnts) == Max(10, Len(Needed(cnts)) * 3)

\* DishEligible without the chosen_ids test of line 484
DishEligible_ReusesDish(it, used, rng, policy) ==
    /\ InDifficulty(it, rng)
    /\ (policy.filtered => it.genre \in policy.allowed)

\* DishEligible with the upper difficulty bound of line 486 left out
DishEligible_NoUpperBound(it, used, rng, policy) ==
    /\ it.id \notin used
    /\ rng[1] <= it.difficulty
    /\ (policy.filtered => it.genre \in policy.allowed)

\* the dish passes the filters of the pool loop
DishEligible(it, used, rng, policy) ==
    /\ it.id \notin used
    /\ InDifficulty(it, rng)
    /\ (policy.filtered => it.genre \in policy.allowed)

\* OptionEligible without the over-coverage guard of lines 506-507
OptionEligible_NoGuard(opt, target, rem) == InSeq(target, opt.groups)

\* the option passes: it holds the target and none of its groups is absent
\* from remaining (the over-coverage guard)
OptionEligible(opt, target, rem) ==
    /\ InSeq(target, opt.groups)
    /\ \A k \in 1..Len(opt.groups) : InSeq(opt.groups[k], rem)

\* w = opt.weight * genre_bonus * (1.0 + 0.6 * max(0, cover - 1)), times 10^4
DrawWeight(it, opt, rem, policy) ==
    LET cover == Cardinality({k \in 1..Len(opt.groups) :
                                  InSeq(opt.groups[k], rem)})
    IN  opt.weight * GenreBonus(policy.bonus, it.genre)
            * (10 + 6 * Max(0, cover - 1))

\* cands: the pool for one target, as the set of its entries
Pool(its, target, rem, used, rng, policy) ==
    UNION { { [it |-> its[i], opt |-> its[i].role_options[k],
               w |-> DrawWeight(its[i], its[i].role_options[k], rem, policy)] :
                k \in { k \in 1..Len(its[i].role_options) :
                          OptionEligible(its[i].role_options[k], target, rem) } } :
            i \in { i \in 1..Len(its) :
                      DishEligible(its[i], used, rng, policy) } }

\* random.choices(cands, weights): the entries a draw can return
Drawable(pool) == { e \in pool : e.w > 0 }

\* RemoveGroups without the remove of line 523
RemoveGroups_Nothing(rem, groups) == rem

\* RemoveGroups that takes only the first group of the option off remaining
RemoveGroups_OnlyFirst(rem, groups) ==
    IF groups = <<>> THEN rem ELSE RemoveFirst(rem, Head(groups))

\* for gg in opt.groups: if gg in remaining: remaining.remove(gg)
RECURSIVE RemoveGroups(_, _)
RemoveGroups(rem, groups) ==
    IF groups = <<>> THEN rem
    ELSE RemoveGroups(RemoveFirst(rem, Head(groups)), Tail(groups))

\* the (selection, score, signature, ids) tuple of a successful trial
Candidate(sel, pref, cnts) ==
    [selection |-> sel,
     score |-> score_selection(sel, pref, TargetDishCount(cnts)),
     sig |-> selection_signature_and_ids(sel).sig,
     ids |-> selection_signature_and_ids(sel).ids]

\* UpdateUnique with s >= prev[1] in place of s > prev[1]
UpdateUnique_TieReplaces(uq, cand) ==
    IF \E n \in 1..Len(uq) : uq[n].sig = cand.sig
    THEN [n \in 1..Len(uq) |->
            IF uq[n].sig = cand.sig /\ cand.score >= uq[n].score
            THEN cand ELSE uq[n]]
    ELSE Append(uq, cand)

\* prev = unique.get(sig); if prev is None or s > prev[1]: unique[sig] = ...
\* unique is a dict: a new key goes last, an updated key keeps its place
UpdateUnique(uq, cand) ==
    IF \E n \in 1..Len(uq) : uq[n].sig = cand.sig
    THEN [n \in 1..Len(uq) |->
            IF uq[n].sig = cand.sig /\ cand.score > uq[n].score
            THEN cand ELSE uq[n]]
    ELSE Append(uq, cand)

\* cands2.sort(key=lambda x: x[1], reverse=True): stable, by score descending
RECURSIVE InsertByScore(_, _)
InsertByScore(sorted, c) ==
    IF sorted = <<>> THEN <<c>>
    ELSE IF Head(sorted).score >= c.score
         THEN <<Head(sorted)>> \o InsertByScore(Tail(sorted), c)
         ELSE <<c>> \o sorted

RECURSIVE SortByScore(_)
SortByScore(cs) ==
    IF cs = <<>> THEN <<>>
    ELSE InsertByScore(SortByScore(SubSeq(cs, 1, Len(cs) - 1)), cs[Len(cs)])

\* RankedTop without the sort of line 538
RankedTop_NoSort(uq, k) == SubSeq(uq, 1, Min(k, Len(uq)))

\* return cands2[:keep]
RankedTop(uq, k) == SubSeq(SortByScore(uq), 1, Min(k, Len(uq)))

---------------------------------------------------------------------------
(* pick_menu_from_candidates *)
(* A weight is the exact fraction num / (dens[1] * dens[2]).                 *)

\* return [], -10**9, "", []
EmptyResult == [selection |-> <<>>, score |-> -1000000000, sig |-> "", ids |-> <<>>]

\* PickPool without the cut of line 562
PickPool_NoCut(cands, mode) == cands

\* pool = candidates[:90] for auto, deluxe, chef; candidates[:] otherwise
PickPool(cands, mode) ==
    IF mode \in {"auto", "deluxe", "chef"}
    THEN SubSeq(cands, 1, Min(TopPool, Len(cands)))
    ELSE cands

PoolMin(pool) == CHOOSE m \in {pool[i].score : i \in 1..Len(pool)} :
                     \A i \in 1..Len(pool) : m <= pool[i].score

PoolMax(pool) == CHOOSE m \in {pool[i].score : i \in 1..Len(pool)} :
                     \A i \in 1..Len(pool) : m >= pool[i].score

\* denom = (max_s - min_s) if (max_s != min_s) else 1.0
Denom(pool) == IF PoolMax(pool) # PoolMin(pool)
               THEN PoolMax(pool) - PoolMin(pool) ELSE 1

Pow(x, k) == IF k = 0 THEN 1
             ELSE IF k = 1 THEN x
             ELSE IF k = 2 THEN x * x
             ELSE IF k = 3 THEN x * x * x
             ELSE x * x * x * x

\* exponent of t in the shaping term of the mode
ShapePower(mode) == IF mode = "deluxe" THEN 2
                    ELSE IF mode = "chef" THEN 4
                    ELSE IF mode = "auto" THEN 3
                    ELSE 0

\* the shaping term with t = x / d, as a fraction over 20 * d^k:
\*   deluxe 0.7 + 2.6 t^2, chef 0.25 + 4.5 t^4, auto 0.45 + 3.4 t^3, else 1.0
ShapeNum(mode, x, d) ==
    IF mode = "deluxe" THEN 14 * Pow(d, 2) + 52 * Pow(x, 2)
    ELSE IF mode = "chef" THEN 5 * Pow(d, 4) + 90 * Pow(x, 4)
    ELSE IF mode = "auto" THEN 9 * Pow(d, 3) + 68 * Pow(x, 3)
    ELSE 20

ShapeDen(mode, d) == 20 * Pow(d, ShapePower(mode))

\* if sig in recent_set: w *= 0.03
RecencyNum(sig, recent) == IF InSeq(sig, recent) THEN 3 ELSE 1

RecencyDen(sig, recent) == IF InSeq(sig, recent) THEN 100 ELSE 1

\* overlap = len(ids_set & last_set) / max(1, len(ids_set | last_set))
\* w *= max(0.06, 1.0 - 0.82 * overlap), as a fraction over 50 * union
OverlapInter(ids, last) == Cardinality(Range(ids) \cap Range(last))

OverlapUnion(ids, last) == Max(1, Cardinality(Range(ids) \cup Range(last)))

OverlapNum(ids, last) ==
    IF Range(last) = {} THEN 1
    ELSE Max(3 * OverlapUnion(ids, last),
             50 * OverlapUnion(ids, last) - 41 * OverlapInter(ids, last))

OverlapDen(ids, last) ==
    IF Range(last) = {} THEN 1 ELSE 50 * OverlapUnion(ids, last)

CeilDiv(a, b) == (a + b - 1) \div b

\* the weight before the floor
RawWeight(c, pool, mode, recent, last) ==
    [num  |-> ShapeNum(mode, c.score - PoolMin(pool), Denom(pool))
                  * RecencyNum(c.sig, recent) * OverlapNum(c.ids, last),
     dens |-> << ShapeDen(mode, Denom(pool)) * RecencyDen(c.sig, recent),
                 OverlapDen(c.ids, last) >>]

\* w < 1e-6, decided exactly: num * 10^6 < dens[1] * dens[2], where dens[1] is
\* a multiple of 20 and dens[2] is 1 or a multiple of 50
BelowFloor(w) ==
    IF w.dens[2] = 1
    THEN w.num < CeilDiv(w.dens[1] \div 20, 50000)
    ELSE w.num < CeilDiv((w.dens[1] \div 20) * (w.dens[2] \div 50), 1000)

\* FinalWeight that gives weight 0 to a candidate with a recent signature
FinalWeight_ExcludesRecent(c, pool, mode, recent, last) ==
    LET w == RawWeight(c, pool, mode, recent, last)
    IN  IF InSeq(c.sig, recent) THEN [num |-> 0, dens |-> <<1, 1>>]
        ELSE IF BelowFloor(w) THEN [num |-> 1, dens |-> <<1000000, 1>>]
        ELSE w

\* weights.append(max(1e-6, w))
FinalWeight(c, pool, mode, recent, last) ==
    LET w == RawWeight(c, pool, mode, recent, last)
    IN  IF BelowFloor(w) THEN [num |-> 1, dens |-> <<1000000, 1>>] ELSE w

\* idx = random.choices(range(len(pool)), weights=weights, k=1)[0]
PickableIndexes(cands, mode, recent, last) ==
    LET pool == PickPool(cands, mode)
    IN  { i \in 1..Len(pool) :
            FinalWeight(pool[i], pool, mode, recent, last).num > 0 }

\* pick_menu_from_candidates without the early return of lines 558-559
pick_menu_from_candidates_NoEmptyCheck(cands, mode, recent, last) ==
    { PickPool(cands, mode)[i] :
        i \in PickableIndexes(cands, mode, recent, last) }

\* the results pick_menu_from_candidates can return
pick_menu_from_candidates(cands, mode, recent, last) ==
    IF cands = <<>> THEN {EmptyResult}
    ELSE { PickPool(cands, mode)[i] :
             i \in PickableIndexes(cands, mode, recent, last) }

---------------------------------------------------------------------------
(* Inputs *)

\* the counts dict of the form: one key per group
Counts(shusai, fukusai, shushoku, nyuseihin, kudamono) ==
    [g \in Range(GROUPS) |->
        IF g = "shusai" THEN shusai
        ELSE IF g = "fukusai" THEN fukusai
        ELSE IF g = "shushoku" THEN shushoku
        ELSE IF g = "nyuseihin" THEN nyuseihin
        ELSE kudamono]

\* genre_choice: what the five genre buttons set
GenreChoices == {"jidou", "wa", "yo", "chu", "sonota"}

\* requirement specs the form can send (each selectbox offers 0..3;
\* shushoku 1, shusai 1, fukusai 1 is the form's default)
FormCounts ==
    { Counts(0, 0, 0, 0, 0),
      Counts(1, 1, 1, 0, 0),
      Counts(1, 0, 0, 1, 0),
      Counts(0, 0, 0, 1, 1) }

\* requirement specs of direct calls: the form's, a partial dict, repeated
\* roles, counts below zero
CallCounts ==
    FormCounts \cup
    { [g \in {"shusai"} |-> 1],
      Counts(2, 1, 0, 0, 0),
      Counts(1, 0, 1, 1, 0),
      Counts(0, 0, 0, 2, 0),
      Counts(-1, 0, 0, 0, 0),
      Counts(0, -1, 1, 0, 0) }

\* difficulty ranges of direct calls: presets' ranges and an empty one
CallRanges == { <<1, 5>>, <<2, 4>>, <<1, 1>>, <<4, 2>> }

\* preferred_genre and base_genre of direct calls
CallGenres ==
    { <<None, None>>, <<"wa", None>>, <<"yo", None>>, <<"chu", None>>,
      <<"sonota", None>>, <<"jidou", None>>, <<"jidou", "wa">>,
      <<"jidou", "yo">>, <<"jidou", "chu">> }

CallKeeps == {1, DefaultKeep}

---------------------------------------------------------------------------
(* State machine *)

NoOutcome == "none"

Sessions == 1..NumSessions

\* a session that has not loaded the catalog yet
NotLoaded == [snapshot |-> -1, writes |-> -1]

\* an empty database, an empty cache, every session with items_ver = 0
FreshCache ==
    /\ db = 0
    /\ cache = [k \in {} |-> 0]
    /\ items_ver = [s \in Sessions |-> 0]
    /\ loaded = [s \in Sessions |-> NotLoaded]

\* a fresh session: nothing called yet, session memory empty (lines 888-891)
FreshSession ==
    /\ pc = "idle"
    /\ caller = None
    /\ preferred = None
    /\ counts = Counts(0, 0, 0, 0, 0)
    /\ difficulty_range = <<1, 5>>
    /\ pick_mode = "auto"
    /\ bases = <<>>
    /\ base_genre = None
    /\ tries = 0
    /\ keep = DefaultKeep
    /\ trial = 0
    /\ remaining = <<>>
    /\ chosen_ids = {}
    /\ selection = <<>>
    /\ step = 0
    /\ lastEnd = None
    /\ unique = <<>>
    /\ trialLog = <<>>
    /\ candidates = <<>>
    /\ picked = EmptyResult
    /\ outcome = NoOutcome
    /\ called = {}
    /\ recent_menu_sigs = <<>>
    /\ last_menu_ids = <<>>
    /\ requests = 0
    /\ drawLog = <<>>
    /\ FreshCache

Init ==
    /\ items \in Catalogs
    /\ FreshSession

\* entry of generate_candidates: lines 456-469, and the first trial's set-up
EnterGenerate(cnts, n) ==
    /\ trial' = 0
    /\ unique' = <<>>
    /\ trialLog' = <<>>
    /\ chosen_ids' = {}
    /\ selection' = <<>>
    /\ step' = 0
    /\ lastEnd' = None
    /\ IF TargetDishCount(cnts) <= 0
       THEN /\ candidates' = <<>>
            /\ remaining' = <<>>
            /\ pc' = "return"
       ELSE /\ candidates' = <<>>
            /\ remaining' = IF n > 0 THEN Needed(cnts) ELSE <<>>
            /\ pc' = IF n > 0 THEN "loop" ELSE "sort"

\* AutoInfeasible without the test of line 902 for a dish that is not sonota
AutoInfeasible_NoCatalogCheck(its, pref, ok) ==
    /\ pref = "jidou"
    /\ ok = <<>>
    /\ its # <<>>

\* AutoInfeasible with all(...) in place of any(...) at line 902
AutoInfeasible_AllNonOther(its, pref, ok) ==
    /\ pref = "jidou"
    /\ ok = <<>>
    /\ its # <<>>
    /\ \A i \in 1..Len(its) : its[i].genre # "sonota"

\* lines 897-902: automatic genre, no feasible base, and the catalog holds a
\* dish that is not sonota
AutoInfeasible(its, pref, ok) ==
    /\ pref = "jidou"
    /\ ok = <<>>
    /\ \E i \in 1..Len(its) : its[i].genre # "sonota"

\* the gacha button handler up to the call of generate_candidates, in a
\* session of at most limit requests
GachaWithin(limit, pref, preset, cnts) ==
    LET r  == resolve_difficulty_preset(preset)
        ok == IF pref = "jidou"
              THEN feasible_auto_base_genres(items, cnts, r.range) ELSE <<>>
    IN  /\ pc = "idle"
        /\ requests < limit
        /\ caller' = "handler"
        /\ bases' = ok
        /\ preferred' = pref
        /\ counts' = cnts
        /\ difficulty_range' = r.range
        /\ pick_mode' = r.mode
        /\ tries' = HandlerTries
        /\ keep' = DefaultKeep
        /\ picked' = EmptyResult
        /\ UNCHANGED <<items, recent_menu_sigs, last_menu_ids, drawLog,
                       db, cache, items_ver, loaded>>
        /\ IF AutoInfeasible(items, pref, ok)
           THEN \* st.error(...); st.stop()
                /\ outcome' = "auto_error"
                /\ called' = {"feasible_auto_base_genres"}
                /\ base_genre' = None
                /\ requests' = requests + 1
                /\ pc' = "idle"
                /\ candidates' = <<>>
                /\ UNCHANGED <<trial, remaining, chosen_ids, selection, step,
                               lastEnd, unique, trialLog>>
           ELSE /\ outcome' = NoOutcome
                /\ called' = (IF pref = "jidou"
                              THEN {"feasible_auto_base_genres"} ELSE {})
                                 \cup {"generate_candidates"}
                \* base_genre = random.choice(bases)
                /\ base_genre' \in (IF pref = "jidou" /\ ok # <<>>
                                    THEN Range(ok) ELSE {None})
                /\ requests' = requests
                /\ EnterGenerate(cnts, HandlerTries)

Gacha(pref, preset, cnts) == GachaWithin(MaxRequests, pref, preset, cnts)

\* a direct call generate_candidates(items, pref, cnts, rng, base, n, k)
CallGenerate(pref, cnts, rng, base, n, k) ==
    /\ pc = "idle"
    /\ caller = None
    /\ caller' = "direct"
    /\ preferred' = pref
    /\ counts' = cnts
    /\ difficulty_range' = rng
    /\ base_genre' = base
    /\ tries' = n
    /\ keep' = k
    /\ called' = {"generate_candidates"}
    /\ EnterGenerate(cnts, n)
    /\ UNCHANGED <<items, pick_mode, bases, picked, outcome, recent_menu_sigs,
                   last_menu_ids, requests, drawLog, db, cache, items_ver, loaded>>

\* one iteration of the step loop that reaches the pool: lines 480-523
TrialStep ==
    /\ pc = "loop"
    /\ step < StepBudget(counts)
    /\ remaining # <<>>
    /\ \E target \in Range(remaining) :
         LET policy == genre_policy(preferred, base_genre)
             cands  == Pool(items, target, remaining, chosen_ids,
                            difficulty_range, policy)
         IN  IF cands = {}
             THEN /\ selection' = <<>>
                  /\ lastEnd' = "empty_pool"
                  /\ pc' = "after"
                  /\ UNCHANGED <<remaining, chosen_ids, step>>
             ELSE \E e \in Drawable(cands) :
                  /\ chosen_ids' = chosen_ids \cup {e.it.id}
                  /\ selection' = Append(selection, [it |-> e.it, opt |-> e.opt])
                  /\ remaining' = RemoveGroups(remaining, e.opt.groups)
                  /\ step' = step + 1
                  /\ UNCHANGED <<lastEnd, pc>>
    /\ UNCHANGED <<items, caller, preferred, counts, difficulty_range,
                   pick_mode, bases, base_genre, tries, keep, trial, unique, trialLog,
                   candidates, picked, outcome, called, recent_menu_sigs,
                   last_menu_ids, requests, drawLog, db, cache, items_ver, loaded>>

\* the step loop ends: break on an empty remaining (line 477), or the range
\* is used up
LoopEnd ==
    /\ pc = "loop"
    /\ (step >= StepBudget(counts) \/ remaining = <<>>)
    /\ lastEnd' = IF step < StepBudget(counts) THEN "covered" ELSE "budget"
    /\ pc' = "after"
    /\ UNCHANGED <<items, caller, preferred, counts, difficulty_range,
                   pick_mode, bases, base_genre, tries, keep, trial, remaining,
                   chosen_ids, selection, step, unique, trialLog, candidates,
                   picked, outcome, called, recent_menu_sigs, last_menu_ids,
                   requests, drawLog, db, cache, items_ver, loaded>>

\* after the step loop: lines 525-535, then the next trial or the sort
TrialEnd ==
    /\ pc = "after"
    /\ IF selection = <<>> \/ remaining # <<>>
       THEN UNCHANGED <<unique, trialLog>>
       ELSE LET cand == Candidate(selection, preferred, counts)
            IN  /\ unique' = UpdateUnique(unique, cand)
                /\ trialLog' = Append(trialLog, cand)
    /\ trial' = trial + 1
    /\ chosen_ids' = {}
    /\ selection' = <<>>
    /\ step' = 0
    /\ IF trial + 1 < tries
       THEN /\ remaining' = Needed(counts)
            /\ pc' = "loop"
       ELSE /\ remaining' = <<>>
            /\ pc' = "sort"
    /\ UNCHANGED <<items, caller, preferred, counts, difficulty_range,
                   pick_mode, bases, base_genre, tries, keep, lastEnd, candidates,
                   picked, outcome, called, recent_menu_sigs, last_menu_ids,
                   requests, drawLog, db, cache, items_ver, loaded>>

\* lines 537-539: sort by score, keep the top
GenSort ==
    /\ pc = "sort"
    /\ candidates' = RankedTop(unique, keep)
    /\ pc' = "return"
    /\ UNCHANGED <<items, caller, preferred, counts, difficulty_range,
                   pick_mode, bases, base_genre, tries, keep, trial, remaining,
                   chosen_ids, selection, step, lastEnd, unique, trialLog,
                   picked, outcome, called, recent_menu_sigs, last_menu_ids,
                   requests, drawLog, db, cache, items_ver, loaded>>

\* generate_candidates returns to a direct caller
GenReturn ==
    /\ pc = "return"
    /\ caller = "direct"
    /\ pc' = "returned"
    /\ UNCHANGED <<items, caller, preferred, counts, difficulty_range,
                   pick_mode, bases, base_genre, tries, keep, trial, remaining,
                   chosen_ids, selection, step, lastEnd, unique, trialLog,
                   candidates, picked, outcome, called, recent_menu_sigs,
                   last_menu_ids, requests, drawLog, db, cache, items_ver, loaded>>

\* RollRecent keeping the first entries: [:8] in place of [-8:]
RollRecent_KeepsOldest(recent, sig) ==
    LET all == Append(recent, sig)
    IN  SubSeq(all, 1, Min(RecentLen, Len(all)))

\* (st.session_state.recent_menu_sigs + [sig])[-8:]
RollRecent(recent, sig) ==
    LET all == Append(recent, sig)
    IN  SubSeq(all, Max(1, Len(all) - RecentLen + 1), Len(all))

\* the handler after generate_candidates: lines 914-925
PickMenu ==
    /\ pc = "return"
    /\ caller = "handler"
    /\ \E r \in pick_menu_from_candidates(candidates, pick_mode,
                                          recent_menu_sigs, last_menu_ids) :
         /\ picked' = r
         /\ IF r.selection = <<>>
            THEN /\ outcome' = "insufficient"
                 /\ UNCHANGED <<recent_menu_sigs, last_menu_ids, drawLog>>
            ELSE /\ outcome' = "ok"
                 /\ recent_menu_sigs' = RollRecent(recent_menu_sigs, r.sig)
                 /\ last_menu_ids' = r.ids
                 /\ drawLog' = Append(drawLog, [sig |-> r.sig, ids |-> r.ids])
    /\ called' = called \cup {"pick_menu_from_candidates"}
    /\ requests' = requests + 1
    /\ pc' = "idle"
    /\ UNCHANGED <<items, caller, preferred, counts, difficulty_range,
                   pick_mode, bases, base_genre, tries, keep, trial, remaining,
                   chosen_ids, selection, step, lastEnd, unique, trialLog,
                   candidates, db, cache, items_ver, loaded>>

\* the app: gacha requests of one session
Next ==
    \/ /\ pc = "idle"
       /\ \E pref \in GenreChoices, preset \in Presets, cnts \in FormCounts :
              Gacha(pref, preset, cnts)
    \/ TrialStep
    \/ LoopEnd
    \/ TrialEnd
    \/ GenSort
    \/ PickMenu

Spec == Init /\ [][Next]_vars

\* generate_candidates called directly
NextGen ==
    \/ /\ pc = "idle"
       /\ \E g \in CallGenres, cnts \in CallCounts, rng \in CallRanges,
             n \in {MaxTries}, k \in CallKeeps :
              CallGenerate(g[1], cnts, rng, g[2], n, k)
    \/ TrialStep
    \/ LoopEnd
    \/ TrialEnd
    \/ GenSort
    \/ GenReturn

SpecGen == Init /\ [][NextGen]_vars

---------------------------------------------------------------------------
(* feasible_auto_base_genres called directly *)

\* the dishes of cat at the positions S, in catalog order
SubCatalog(cat, S) ==
    LET idx == SortedSeq(S) IN [n \in 1..Len(idx) |-> cat[idx[n]]]

\* every catalog made of dishes of CatalogMixed or of CatalogOther
FeasCatalogs ==
    { SubCatalog(CatalogMixed, S) : S \in SUBSET (1..Len(CatalogMixed)) }
        \cup { SubCatalog(CatalogOther, S) : S \in SUBSET (1..Len(CatalogOther)) }

\* every difficulty range over the five levels of DIFFICULTY_LABELS
FeasRanges == (1..5) \X (1..5)

InitFeas ==
    /\ items \in FeasCatalogs
    /\ FreshSession

CallFeasible(cnts, rng) ==
    /\ pc = "idle"
    /\ caller = None
    /\ caller' = "direct"
    /\ counts' = cnts
    /\ difficulty_range' = rng
    /\ bases' = feasible_auto_base_genres(items, cnts, rng)
    /\ called' = {"feasible_auto_base_genres"}
    /\ pc' = "returned"
    /\ UNCHANGED <<items, preferred, pick_mode, base_genre, tries, keep, trial,
                   remaining, chosen_ids, selection, step, lastEnd, unique,
                   trialLog, candidates, picked, outcome, recent_menu_sigs,
                   last_menu_ids, requests, drawLog, db, cache, items_ver, loaded>>

NextFeas ==
    /\ pc = "idle"
    /\ \E cnts \in CallCounts, rng \in FeasRanges : CallFeasible(cnts, rng)

SpecFeas == InitFeas /\ [][NextFeas]_vars

\* preferences and counts of the calls that are followed to their return
RunGenres == { None, "wa", "yo" }

RunCounts ==
    { Counts(0, 0, 0, 0, 0), Counts(1, 1, 1, 0, 0), Counts(2, 1, 0, 0, 0),
      Counts(0, 0, 0, 1, 1) }

\* generate_candidates called directly with the default keep on the full
\* difficulty range
NextRun ==
    \/ /\ pc = "idle"
       /\ \E pref \in RunGenres, cnts \in RunCounts :
              CallGenerate(pref, cnts, <<1, 5>>, None, MaxTries, DefaultKeep)
    \/ TrialStep
    \/ LoopEnd
    \/ TrialEnd
    \/ GenSort
    \/ GenReturn

\* a call of generate_candidates that has started keeps running: the
\* interpreter executes the next statement
SpecRunFair == Init /\ [][NextRun]_vars /\ WF_vars(NextRun)

---------------------------------------------------------------------------
(* pick_menu_from_candidates called directly *)

PickModes == { resolve_difficulty_preset(p).mode : p \in Presets }

\* candidate lists of direct calls: n one-dish candidates with ids 1..n
\* and the scores given by shape
ListScore(shape, i) ==
    IF shape = "flat" THEN 5
    ELSE IF shape = "ranked" THEN 12 - ((i - 1) \div 8)
    ELSE (i - 1) \div 8

ListCandidate(shape, i) ==
    LET opt == RoleOption(<<"shusai">>, 10)
        it  == MenuItem(i, "wa", 3, <<opt>>)
        sel == <<[it |-> it, opt |-> opt]>>
    IN  [selection |-> sel,
         score |-> ListScore(shape, i),
         sig |-> selection_signature_and_ids(sel).sig,
         ids |-> selection_signature_and_ids(sel).ids]

ListLengths == {0, 1, 2, TopPool - 1, TopPool, TopPool + 1, TopPool + PickExtra}

PickLists ==
    { [i \in 1..n |-> ListCandidate(shape, i)] :
        n \in ListLengths, shape \in {"flat", "ranked", "rising"} }

PickRecents == { <<>>, <<"1">>, <<"2", "91", "7-8">> }

PickLasts == { <<>>, <<1>>, <<2, 91>> }

InitPick ==
    /\ items = CatalogEmpty
    /\ pc = "idle"
    /\ caller = None
    /\ preferred = None
    /\ counts = Counts(0, 0, 0, 0, 0)
    /\ difficulty_range = <<1, 5>>
    /\ pick_mode \in PickModes
    /\ bases = <<>>
    /\ base_genre = None
    /\ tries = 0
    /\ keep = DefaultKeep
    /\ trial = 0
    /\ remaining = <<>>
    /\ chosen_ids = {}
    /\ selection = <<>>
    /\ step = 0
    /\ lastEnd = None
    /\ unique = <<>>
    /\ trialLog = <<>>
    /\ candidates \in PickLists
    /\ picked = EmptyResult
    /\ outcome = NoOutcome
    /\ called = {}
    /\ recent_menu_sigs \in PickRecents
    /\ last_menu_ids \in PickLasts
    /\ requests = 0
    /\ drawLog = <<>>
    /\ FreshCache

\* a direct call pick_menu_from_candidates(candidates, pick_mode,
\* recent_menu_sigs, last_menu_ids)
CallPick ==
    /\ pc = "idle"
    /\ caller = None
    /\ caller' = "direct"
    /\ picked' \in pick_menu_from_candidates(candidates, pick_mode,
                                             recent_menu_sigs, last_menu_ids)
    /\ called' = {"pick_menu_from_candidates"}
    /\ pc' = "returned"
    /\ UNCHANGED <<items, preferred, counts, difficulty_range, pick_mode,
                   bases, base_genre, tries, keep, trial, remaining,
                   chosen_ids, selection, step, lastEnd, unique, trialLog,
                   candidates, outcome, recent_menu_sigs, last_menu_ids,
                   requests, drawLog, db, cache, items_ver, loaded>>

NextPick == CallPick

SpecPick == InitPick /\ [][NextPick]_vars

---------------------------------------------------------------------------
(* The app and the direct calls of generate_candidates together, for
   requests of one slot at most *)

\* selectbox values with no slot, and with one slot
LightFormCounts == { Counts(0, 0, 0, 0, 0), Counts(0, 0, 1, 0, 0) }

\* counts of direct calls that ask for one slot at most
LightCallCounts == { cnts \in CallCounts : TargetDishCount(cnts) <= 1 }

NextAll ==
    \/ /\ pc = "idle"
       /\ \E pref \in GenreChoices, preset \in Presets,
             cnts \in LightFormCounts :
              Gacha(pref, preset, cnts)
    \/ /\ pc = "idle"
       /\ \E g \in CallGenres, cnts \in LightCallCounts, rng \in CallRanges,
             n \in {MaxTries}, k \in CallKeeps :
              CallGenerate(g[1], cnts, rng, g[2], n, k)
    \/ TrialStep
    \/ LoopEnd
    \/ TrialEnd
    \/ GenSort
    \/ GenReturn
    \/ PickMenu

SpecAll == Init /\ [][NextAll]_vars

---------------------------------------------------------------------------
(* A long session of small requests: the session memory fills up *)

\* selectbox values with no slot, and with one nyuseihin slot
MemCounts == { Counts(0, 0, 0, 0, 0), Counts(0, 0, 0, 1, 0) }

NextMem ==
    \/ \E cnts \in MemCounts : GachaWithin(MaxDraws, None, None, cnts)
    \/ TrialStep
    \/ LoopEnd
    \/ TrialEnd
    \/ GenSort
    \/ PickMenu

SpecMem == Init /\ [][NextMem]_vars

---------------------------------------------------------------------------
(* The catalog cache: sessions that write to the database and load the
   catalog through load_items_cached.  A snapshot is named by the revision
   of the database it was read at. *)

\* load_items_cached(items_ver): the cached snapshot of the key if there is
\* one, the database as it is otherwise
load_items_cached(c, ver, rev) == IF ver \in DOMAIN c THEN c[ver] ELSE rev

\* st.cache_data after the call: a missing key is filled in
CacheAfterLoad(c, ver, rev) ==
    [k \in DOMAIN c \cup {ver} |-> IF k \in DOMAIN c THEN c[k] ELSE rev]

\* line 793, at every run of the script of session s
LoadItems(s) ==
    /\ loaded' = [loaded EXCEPT ![s] =
                     [snapshot |-> load_items_cached(cache, items_ver[s], db),
                      writes   |-> db]]
    /\ cache' = CacheAfterLoad(cache, items_ver[s], db)
    /\ UNCHANGED <<db, items_ver>>
    /\ UNCHANGED gachaVars

\* a successful insert, update or delete in session s:
\* the write, then st.session_state["items_ver"] += 1
WriteItem(s) ==
    /\ db < MaxWrites
    /\ db' = db + 1
    /\ items_ver' = [items_ver EXCEPT ![s] = items_ver[s] + 1]
    /\ UNCHANGED <<cache, loaded>>
    /\ UNCHANGED gachaVars

NextCache ==
    \/ \E s \in Sessions : LoadItems(s)
    \/ \E s \in Sessions : WriteItem(s)

SpecCache == Init /\ [][NextCache]_vars

---------------------------------------------------------------------------
(* Direct calls of score_selection *)

\* every dish of the catalog with its first role option
ScoreEntries(its) ==
    { [it |-> its[i], opt |-> its[i].role_options[1]] : i \in 1..Len(its) }

\* the non-empty selections of at most MaxSel dishes
ScoreSelections(its) ==
    UNION { [1..n -> ScoreEntries(its)] : n \in 1..MaxSel }

\* counts with target_dish_count 0, 1, 2 and 3
ScoreCounts ==
    { Counts(0, 0, 0, 0, 0), Counts(1, 0, 0, 0, 0), Counts(1, 0, 0, 1, 0),
      Counts(1, 1, 1, 0, 0) }

\* the call score_selection(sel, pref, target_dish_count) of line 530, with
\* target_dish_count computed from cnts as at line 465
CallScore(sel, pref, cnts) ==
    /\ pc = "idle"
    /\ caller = None
    /\ caller' = "direct"
    /\ selection' = sel
    /\ preferred' = pref
    /\ counts' = cnts
    /\ picked' = Candidate(sel, pref, cnts)
    /\ called' = {"score_selection"}
    /\ pc' = "returned"
    /\ UNCHANGED <<items, difficulty_range, pick_mode, bases, base_genre,
                   tries, keep, trial, remaining, chosen_ids, step, lastEnd,
                   unique, trialLog, candidates, outcome, recent_menu_sigs,
                   last_menu_ids, requests, drawLog, db, cache, items_ver,
                   loaded>>

NextScore ==
    /\ pc = "idle"
    /\ \E sel \in ScoreSelections(items), pref \in GenreChoices \cup {None},
          cnts \in ScoreCounts : CallScore(sel, pref, cnts)

SpecScore == Init /\ [][NextScore]_vars

---------------------------------------------------------------------------
(* Properties of generate_candidates *)

\* every candidate the call holds: the dict unique and the returned list
HeldCandidates == Range(unique) \cup Range(candidates)

\* number of chosen role options of sel that contain group g
OptionsContaining(sel, g) ==
    Cardinality({n \in 1..Len(sel) : InSeq(g, sel[n].opt.groups)})

\* the requested number of slots of group g
Requested(g) == IF g \in DOMAIN counts /\ counts[g] > 0 THEN counts[g] ELSE 0

ExactCover(sel) ==
    \A g \in Range(GROUPS) : OptionsContaining(sel, g) = Requested(g)

\* C1 (coverage exactness): in every candidate held or returned by
\* generate_candidates, for every role the number of chosen role options that
\* contain the role equals the requested count of the role; and a trial whose
\* step loop ended on an empty pool or with roles still remaining leaves the
\* dict of candidates as it was.
C1_CoverageExact ==
    /\ [](\A c \in HeldCandidates : ExactCover(c.selection))
    /\ [][(pc = "after" /\ (lastEnd = "empty_pool" \/ remaining # <<>>))
             => unique' = unique]_vars

\* a call has returned a candidate that uses an option of two roles for a
\* request with a role asked twice, after a last trial that hit an empty pool
C1_Witness ==
    /\ pc = "returned"
    /\ lastEnd = "empty_pool"
    /\ \E g \in DOMAIN counts : counts[g] >= 2
    /\ \E n \in 1..Len(candidates) :
         \E k \in 1..Len(candidates[n].selection) :
             Len(candidates[n].selection[k].opt.groups) >= 2

DistinctDishes(sel) ==
    \A i, j \in 1..Len(sel) : i # j => sel[i].it.id # sel[j].it.id

\* C2 (no duplicate dishes): every candidate held or returned by
\* generate_candidates uses each dish at most once, and its id list has as
\* many entries as its selection.
C2_NoDuplicateDishes ==
    \A c \in HeldCandidates :
        /\ DistinctDishes(c.selection)
        /\ Len(c.ids) = Len(c.selection)

\* a returned candidate of several dishes holds a dish that owns two role
\* options, both for requested roles
C2_Witness ==
    /\ pc = "returned"
    /\ \E n \in 1..Len(candidates) :
         /\ Len(candidates[n].selection) >= 2
         /\ \E k \in 1..Len(candidates[n].selection) :
              LET it == candidates[n].selection[k].it
              IN  /\ Len(it.role_options) >= 2
                  /\ \A o \in 1..Len(it.role_options) :
                        \A q \in 1..Len(it.role_options[o].groups) :
                            Requested(it.role_options[o].groups[q]) > 0

\* the successful trials with the signature sig
TrialsOf(sig) == {n \in 1..Len(trialLog) : trialLog[n].sig = sig}

\* the first trial with the signature and the score of c
FirstTrialLike(c) ==
    CHOOSE n \in TrialsOf(c.sig) :
        /\ trialLog[n].score = c.score
        /\ \A m \in TrialsOf(c.sig) : trialLog[m].score = c.score => n <= m

RetainedIsBest(c) ==
    /\ \A n \in TrialsOf(c.sig) : c.score >= trialLog[n].score
    /\ \E n \in TrialsOf(c.sig) : trialLog[n].score = c.score
    /\ c = trialLog[FirstTrialLike(c)]

DistinctSignatures(cs) ==
    \A i, j \in 1..Len(cs) : i # j => cs[i].sig # cs[j].sig

\* C3 (signature dedup): the dict unique and the returned list never hold two
\* candidates with the same signature; the candidate retained for a signature
\* has a score at least that of every successful trial with the signature, and
\* is the earliest trial with that best score.
C3_SignatureDedup ==
    /\ DistinctSignatures(unique)
    /\ DistinctSignatures(candidates)
    /\ \A c \in HeldCandidates : RetainedIsBest(c)

\* a call has returned after two trials with the same signature, the second
\* with the higher score, and the returned candidate is the second
C3_Witness ==
    /\ pc = "returned"
    /\ \E m, n \in 1..Len(trialLog) :
         /\ m < n
         /\ trialLog[m].sig = trialLog[n].sig
         /\ trialLog[m].score < trialLog[n].score
         /\ \E i \in 1..Len(candidates) : candidates[i] = trialLog[n]

\* C4 (difficulty filtering): no candidate held or returned by
\* generate_candidates contains a dish whose difficulty is below dmin or
\* above dmax.
C4_DifficultyFiltering ==
    \A c \in HeldCandidates :
        \A k \in 1..Len(c.selection) :
            /\ difficulty_range[1] <= c.selection[k].it.difficulty
            /\ c.selection[k].it.difficulty <= difficulty_range[2]

\* a call has returned a candidate while the catalog holds a dish above dmax
\* and a dish below dmin that offer a requested role
C4_Witness ==
    /\ pc = "returned"
    /\ candidates # <<>>
    /\ \E i, j \in 1..Len(items) :
         /\ items[i].difficulty > difficulty_range[2]
         /\ items[j].difficulty < difficulty_range[1]
         /\ \E g \in Range(GROUPS) :
              Requested(g) > 0 /\ item_can_cover_group(items[i], g)
         /\ \E g \in Range(GROUPS) :
              Requested(g) > 0 /\ item_can_cover_group(items[j], g)

\* the allow-set of the active policy, as the claim lists it
AllowSet(pref, base) ==
    IF pref \in {"yo", "chu"} THEN {pref, "sonota"}
    ELSE IF pref = "wa" THEN {"wa", "chu", "sonota"}
    ELSE IF pref = "sonota" THEN {"sonota"}
    ELSE IF pref = "jidou" /\ base # None THEN {base, "sonota"}
    ELSE Range(GENRES)

\* the pool one step draws from, for the target
StepPool(target) ==
    Pool(items, target, remaining, chosen_ids, difficulty_range,
         genre_policy(preferred, base_genre))

\* every unused dish in the difficulty range with an option for the target
\* that covers nothing beyond remaining is in the pool, whatever its genre
PoolUnfiltered(target) ==
    \A i \in 1..Len(items) :
        \A k \in 1..Len(items[i].role_options) :
            ( /\ items[i].id \notin chosen_ids
              /\ difficulty_range[1] <= items[i].difficulty
              /\ items[i].difficulty <= difficulty_range[2]
              /\ InSeq(target, items[i].role_options[k].groups)
              /\ \A q \in 1..Len(items[i].role_options[k].groups) :
                    InSeq(items[i].role_options[k].groups[q], remaining) )
            => \E e \in StepPool(target) :
                   e.it = items[i] /\ e.opt = items[i].role_options[k]

\* C5 (genre allow-set): every dish of every candidate held or returned, and
\* every dish of every pool a step draws from, has a genre in the allow-set of
\* the active policy; with no preference, and in automatic mode with no base
\* genre, no dish is kept out of a pool for its genre.
C5_GenreAllowSet ==
    /\ \A c \in HeldCandidates :
          \A k \in 1..Len(c.selection) :
              c.selection[k].it.genre \in AllowSet(preferred, base_genre)
    /\ pc = "loop" =>
          \A target \in Range(remaining) :
              /\ \A e \in StepPool(target) :
                    e.it.genre \in AllowSet(preferred, base_genre)
              /\ (preferred = None \/ (preferred = "jidou" /\ base_genre = None))
                    => PoolUnfiltered(target)

\* under the preference wa a call has returned a candidate with a chu dish,
\* while the catalog holds a yo dish that offers a requested role
C5_Witness ==
    /\ pc = "returned"
    /\ preferred = "wa"
    /\ \E n \in 1..Len(candidates) :
         \E k \in 1..Len(candidates[n].selection) :
             candidates[n].selection[k].it.genre = "chu"
    /\ \E i \in 1..Len(items) :
         /\ items[i].genre = "yo"
         /\ \E g \in Range(GROUPS) :
              Requested(g) > 0 /\ item_can_cover_group(items[i], g)

---------------------------------------------------------------------------
(* Properties of feasible_auto_base_genres and of the gacha button handler *)

\* some dish of genre base or sonota, in the difficulty range, owns a role
\* option that contains the role g
HasProvider(base, g) ==
    \E i \in 1..Len(items) :
        /\ items[i].genre = base \/ items[i].genre = "sonota"
        /\ difficulty_range[1] <= items[i].difficulty
        /\ items[i].difficulty <= difficulty_range[2]
        /\ \E k \in 1..Len(items[i].role_options) :
              InSeq(g, items[i].role_options[k].groups)

Qualifies(base) ==
    \A g \in Range(GROUPS) : Requested(g) > 0 => HasProvider(base, g)

\* position of a base in the genre enumeration wa, yo, chu
BaseRank(b) == IF b = "wa" THEN 1 ELSE IF b = "yo" THEN 2 ELSE 3

\* C6 (feasibility check): the list returned by feasible_auto_base_genres
\* holds only wa, yo, chu, in that order and without repetition, and holds a
\* base exactly when every role with a positive required count has a dish of
\* genre base or sonota, in the inclusive difficulty range, with a role option
\* containing the role.
C6_FeasibilityCheck ==
    (pc = "returned" /\ "feasible_auto_base_genres" \in called) =>
        /\ \A n \in 1..Len(bases) : bases[n] \in {"wa", "yo", "chu"}
        /\ \A m, n \in 1..Len(bases) :
              m < n => BaseRank(bases[m]) < BaseRank(bases[n])
        /\ \A b \in {"wa", "yo", "chu"} : InSeq(b, bases) <=> Qualifies(b)

\* the check has returned two bases in order and left out the third, for
\* which a required role is offered by a dish of that genre outside the
\* difficulty range only
C6_Witness ==
    /\ pc = "returned"
    /\ "feasible_auto_base_genres" \in called
    /\ Len(bases) = 2
    /\ \E b \in {"wa", "yo", "chu"}, g \in Range(GROUPS) :
         /\ ~InSeq(b, bases)
         /\ Requested(g) > 0
         /\ ~HasProvider(b, g)
         /\ \E n \in 1..Len(items) :
              items[n].genre = b /\ item_can_cover_group(items[n], g)

AllOther(its) == \A i \in 1..Len(its) : its[i].genre = "sonota"

AutoRequest == caller = "handler" /\ preferred = "jidou"

\* Scenario C as claimed: automatic preference on a catalog of sonota dishes
\* only: the feasibility check returns the empty list, no infeasibility error
\* is raised, base_genre stays unset and generation runs with no genre filter.
C7_ScenarioC_AsClaimed ==
    (AutoRequest /\ AllOther(items)) =>
        /\ bases = <<>>
        /\ outcome # "auto_error"
        /\ base_genre = None
        /\ "generate_candidates" \in called
        /\ ~genre_policy(preferred, base_genre).filtered

\* some role with a positive count has no sonota dish in the difficulty range
\* that offers it
RoleWithoutOtherProvider ==
    \E g \in Range(GROUPS) : Requested(g) > 0 /\ ~HasProvider("sonota", g)

\* C7 (Scenario C, amended): on a gacha request with automatic preference and
\* a catalog of sonota dishes only, no infeasibility error is raised and
\* generation runs; the feasibility check returns the empty list exactly when
\* some required role has no dish in the difficulty range that offers it, and
\* then base_genre stays unset and there is no genre filter; otherwise it
\* returns wa, yo, chu and base_genre is one of them; in both cases the genre
\* filter keeps no dish of the catalog out.
C7_ScenarioC ==
    (AutoRequest /\ AllOther(items)) =>
        /\ outcome # "auto_error"
        /\ "generate_candidates" \in called
        /\ (bases = <<>>) <=> RoleWithoutOtherProvider
        /\ bases = <<>> =>
              /\ base_genre = None
              /\ ~genre_policy(preferred, base_genre).filtered
        /\ bases # <<>> =>
              /\ bases = <<"wa", "yo", "chu">>
              /\ InSeq(base_genre, bases)
        /\ \A i \in 1..Len(items) :
              genre_policy(preferred, base_genre).filtered =>
                  items[i].genre \in genre_policy(preferred, base_genre).allowed

\* an automatic request on a catalog of sonota dishes, with roles required,
\* has ended with a menu picked under a base genre
C7_Witness ==
    /\ AutoRequest
    /\ items # <<>>
    /\ AllOther(items)
    /\ \E g \in Range(GROUPS) : Requested(g) > 0
    /\ pc = "idle"
    /\ outcome = "ok"
    /\ base_genre # None
    /\ picked.selection # <<>>

\* C8 (infeasible automatic genre): a gacha request with automatic preference
\* for which the feasibility check returns no base, on a catalog with a dish
\* that is not sonota, ends at once in the outcome auto_error: only the
\* feasibility check has run, the outcome is not the insufficient one, and
\* recent_menu_sigs and last_menu_ids are as before the request.
C8_InfeasibleAuto ==
    [][(/\ pc = "idle"
        /\ caller' = "handler"
        /\ preferred' = "jidou"
        /\ bases' = <<>>
        /\ ~AllOther(items))
       => /\ outcome' = "auto_error"
          /\ outcome' # "insufficient"
          /\ pc' = "idle"
          /\ called' = {"feasible_auto_base_genres"}
          /\ "generate_candidates" \notin called'
          /\ "pick_menu_from_candidates" \notin called'
          /\ candidates' = <<>>
          /\ picked' = EmptyResult
          /\ recent_menu_sigs' = recent_menu_sigs
          /\ last_menu_ids' = last_menu_ids]_vars

\* after a request that picked a menu, an automatic request has ended in
\* auto_error with the session memory still holding the earlier menu
C8_Witness ==
    /\ AutoRequest
    /\ outcome = "auto_error"
    /\ pc = "idle"
    /\ bases = <<>>
    /\ ~AllOther(items)
    /\ requests >= 2
    /\ recent_menu_sigs # <<>>
    /\ last_menu_ids # <<>>

AllNonPositive(cnts) == \A g \in DOMAIN cnts : cnts[g] <= 0

\* C9 (empty requirement): when every requested count is zero or negative,
\* generate_candidates returns the empty list whatever the catalog, genre and
\* difficulty range; pick_menu_from_candidates on that list returns the empty
\* result for every pick mode and session memory; and the handler ends the
\* request in the outcome insufficient, with the session memory untouched.
C9_EmptyRequirement ==
    (AllNonPositive(counts) /\ "generate_candidates" \in called) =>
        /\ candidates = <<>>
        /\ unique = <<>>
        /\ pc \in {"return", "returned", "idle"}
        /\ \A mode \in PickModes, recent \in PickRecents, last \in PickLasts :
              pick_menu_from_candidates(candidates, mode, recent, last)
                  = {[selection |-> <<>>, score |-> -1000000000,
                      sig |-> "", ids |-> <<>>]}
        /\ (caller = "handler" /\ pc = "idle") =>
              /\ picked.selection = <<>>
              /\ picked.sig = ""
              /\ picked.ids = <<>>
              /\ outcome = "insufficient"

\* a request with all counts zero has ended in insufficient, on a catalog
\* with dishes and after an earlier request that picked a menu
C9_Witness ==
    /\ caller = "handler"
    /\ pc = "idle"
    /\ AllNonPositive(counts)
    /\ "pick_menu_from_candidates" \in called
    /\ outcome = "insufficient"
    /\ items # <<>>
    /\ recent_menu_sigs # <<>>

SortedByScore(cs) ==
    \A i \in 1..(Len(cs) - 1) : cs[i].score >= cs[i + 1].score

\* C10 (selector result): for a non-empty list, pick_menu_from_candidates
\* returns an element of the list unchanged; in the modes auto, deluxe and
\* chef the element is among the first 90, so on a list sorted by descending
\* score no entry after the 90th outscores it; in the modes usual and
\* microwave every entry of the list is a possible result.
C10_SelectorResult ==
    candidates # <<>> =>
        /\ pc = "returned" =>
              \E i \in 1..Len(candidates) :
                  /\ picked = candidates[i]
                  /\ pick_mode \in {"auto", "deluxe", "chef"} => i <= 90
        /\ (pc = "returned" /\ pick_mode \in {"auto", "deluxe", "chef"}
               /\ SortedByScore(candidates)) =>
              \A k \in 91..Len(candidates) :
                  picked.score >= candidates[k].score
        /\ pick_mode \in {"usual", "microwave"} =>
              pick_menu_from_candidates(candidates, pick_mode,
                                        recent_menu_sigs, last_menu_ids)
                  = Range(candidates)

\* from a list longer than 90 the 90th entry has been returned in a mode
\* that cuts the list
C10_Witness ==
    /\ pc = "returned"
    /\ "pick_menu_from_candidates" \in called
    /\ Len(candidates) > 90
    /\ pick_mode \in {"auto", "deluxe", "chef"}
    /\ picked = candidates[90]

\* C11 (ranked output): the list returned by generate_candidates is ordered
\* by score non-increasing, has at most keep entries, and every candidate of
\* the dict unique that is not returned has a score less than or equal to the
\* score of every returned candidate.
C11_RankedOutput ==
    (pc \in {"return", "returned"} /\ "generate_candidates" \in called) =>
        /\ \A i \in 1..(Len(candidates) - 1) :
              candidates[i].score >= candidates[i + 1].score
        /\ Len(candidates) <= keep
        /\ \A u \in Range(unique) \ Range(candidates) :
              \A c \in Range(candidates) : u.score <= c.score

\* a call with keep = 1 has returned the second candidate found, which
\* outscores the first, and has left the first out
C11_Witness ==
    /\ pc = "returned"
    /\ "generate_candidates" \in called
    /\ keep = 1
    /\ Len(unique) >= 2
    /\ Len(candidates) = 1
    /\ candidates[1] = unique[2]
    /\ unique[1].score < unique[2].score

\* the total requested slot count
TotalSlots ==
    Requested("shusai") + Requested("fukusai") + Requested("shushoku")
        + Requested("nyuseihin") + Requested("kudamono")

\* the number of role tags of the chosen options of sel
RECURSIVE TagsOf(_)
TagsOf(sel) ==
    IF sel = <<>> THEN 0 ELSE Len(Head(sel).opt.groups) + TagsOf(Tail(sel))

\* Selection size as claimed: in every candidate returned by
\* generate_candidates the number of dishes equals the total requested slot
\* count.
C15_SelectionSize_AsClaimed ==
    (pc \in {"return", "returned"} /\ "generate_candidates" \in called) =>
        \A n \in 1..Len(candidates) :
            /\ Len(candidates[n].ids) = TotalSlots
            /\ Len(candidates[n].selection) = TotalSlots

\* C15 (selection size, amended): in every candidate held or returned by
\* generate_candidates the number of dishes equals the number of chosen
\* options and lies between 1 and the total requested slot count; the role
\* tags of the chosen options add up to the slot count, so the number of
\* dishes equals the slot count exactly when every chosen option has one
\* role tag.
C15_SelectionSize ==
    \A c \in HeldCandidates :
        /\ Len(c.ids) = Len(c.selection)
        /\ 1 <= Len(c.selection)
        /\ Len(c.selection) <= TotalSlots
        /\ TagsOf(c.selection) = TotalSlots
        /\ (Len(c.selection) = TotalSlots) <=>
              \A k \in 1..Len(c.selection) : Len(c.selection[k].opt.groups) = 1

\* a call for three slots has returned a candidate of two dishes, one of
\* them chosen with an option of two role tags
C15_Witness ==
    /\ pc = "returned"
    /\ TotalSlots = 3
    /\ \E n \in 1..Len(candidates) :
         /\ Len(candidates[n].selection) = 2
         /\ \E k \in 1..2 : Len(candidates[n].selection[k].opt.groups) = 2

\* the score of sel without the final penalty term
ScoreWithoutPenalty(sel) ==
    HomogeneityTerm(sel, preferred) + PreferenceTerm(sel, preferred)

\* C16 (dead surplus penalty): every selection that generate_candidates
\* passes to score_selection has at most target_dish_count dishes, so the
\* final penalty term is 0 and the score is the sum of the two other terms.
C16_DeadSurplusPenalty ==
    /\ (pc = "after" /\ selection # <<>> /\ remaining = <<>>) =>
          /\ Len(selection) <= TotalSlots
          /\ score_selection(selection, preferred, TargetDishCount(counts))
                = ScoreWithoutPenalty(selection)
    /\ \A n \in 1..Len(trialLog) :
          /\ Len(trialLog[n].selection) <= TotalSlots
          /\ trialLog[n].score = ScoreWithoutPenalty(trialLog[n].selection)

\* a call for one role twice has scored a selection of two dishes, as many
\* as target_dish_count
C16_Witness ==
    /\ pc = "returned"
    /\ \E g \in DOMAIN counts : counts[g] = 2
    /\ TotalSlots = 2
    /\ \E n \in 1..Len(trialLog) : Len(trialLog[n].selection) = 2

\* within a trial the steps drawn plus the roles remaining never exceed the
\* requested slots, the step budget is not reached, the trials done are
\* fewer than tries, and no trial was ended by the step budget
TrialWithinSlots ==
    /\ pc \in {"loop", "after"} =>
          /\ step + Len(remaining) <= TotalSlots
          /\ step <= TotalSlots
          /\ step < StepBudget(counts)
          /\ trial < tries
    /\ lastEnd # "budget"

\* C17 (trial progress and termination): a step that draws a pair makes
\* remaining shorter; every step leads to a state where the steps drawn in
\* the trial plus the roles remaining do not exceed the requested slots and
\* the step budget has ended no trial; and every call of
\* generate_candidates returns.
C17_TrialTermination ==
    /\ [][(pc = "loop" /\ step' = step + 1)
             => Len(remaining') < Len(remaining)]_vars
    /\ [][TrialWithinSlots']_vars
    /\ (pc \in {"loop", "after", "sort", "return"}) ~> (pc = "returned")

\* a trial for three slots has ended covered after three draws, each of a
\* single role
C17_Witness ==
    /\ pc = "after"
    /\ lastEnd = "covered"
    /\ TotalSlots = 3
    /\ step = 3
    /\ remaining = <<>>
    /\ Len(selection) = 3

---------------------------------------------------------------------------
(* Properties of the session memory *)

\* the signatures of the last n successful draws, oldest first
LastDrawSigs(n) ==
    LET m == IF Len(drawLog) < n THEN Len(drawLog) ELSE n
    IN  [i \in 1..m |-> drawLog[Len(drawLog) - m + i].sig]

\* C12 (session memory): from empty memory, after any sequence of gacha
\* requests, recent_menu_sigs holds at most 8 signatures and is the list of
\* the signatures of the most recent successful draws in draw order, and
\* last_menu_ids is the id list of the most recent successful draw; a request
\* that ends with an empty selection leaves both unchanged.
C12_SessionMemory ==
    /\ [](/\ Len(recent_menu_sigs) <= 8
          /\ recent_menu_sigs = LastDrawSigs(8)
          /\ last_menu_ids = IF drawLog = <<>> THEN <<>>
                             ELSE drawLog[Len(drawLog)].ids)
    /\ [][(pc = "return" /\ pc' = "idle" /\ picked'.selection = <<>>)
             => /\ recent_menu_sigs' = recent_menu_sigs
                /\ last_menu_ids' = last_menu_ids]_vars

\* after nine successful draws, the first two of different menus, and a
\* request that ended with an empty selection, the memory holds the last
\* eight signatures
C12_Witness ==
    /\ pc = "idle"
    /\ Len(drawLog) = 9
    /\ drawLog[1].sig # drawLog[2].sig
    /\ requests > Len(drawLog)
    /\ outcome = "insufficient"
    /\ Len(recent_menu_sigs) = 8
    /\ recent_menu_sigs[1] = drawLog[2].sig

---------------------------------------------------------------------------
(* Properties of the catalog cache *)

\* C13 (write-triggered invalidation): whatever the interleaving of the
\* writes and loads of the sessions, a catalog load made after a write does
\* not return a snapshot taken before that write: the snapshot a session
\* loaded is of the revision the database had at the load.
C13_WriteInvalidation ==
    \A s \in Sessions :
        loaded[s] # NotLoaded => loaded[s].snapshot = loaded[s].writes

---------------------------------------------------------------------------
(* Properties of score_selection *)

\* the cluster label of a genre under the preference of the call
ClusterLabel(g) ==
    IF preferred = "wa" /\ (g = "wa" \/ g = "chu") THEN "wachu" ELSE g

\* the number of dishes of the selection whose genre satisfies Test
DishesWith(Test(_)) ==
    Cardinality({n \in 1..Len(selection) : Test(selection[n].it.genre)})

ClaimedHomogeneity ==
    LET total == Len(selection)
        base  == ClusterLabel(selection[1].it.genre)
        same  == DishesWith(LAMBDA g : ClusterLabel(g) = base)
    IN  IF same = total THEN 6
        ELSE 2 * (IF same - 1 > 0 THEN same - 1 ELSE 0) - (total - same)

ClaimedPreference ==
    IF preferred = "wa"
    THEN 2 * DishesWith(LAMBDA g : g = "wa") + DishesWith(LAMBDA g : g = "chu")
    ELSE IF preferred \in {"yo", "chu", "sonota"}
    THEN 2 * DishesWith(LAMBDA g : g = preferred)
    ELSE 0

ClaimedPenalty ==
    LET target == Requested("shusai") + Requested("fukusai")
                    + Requested("shushoku") + Requested("nyuseihin")
                    + Requested("kudamono")
    IN  IF Len(selection) > target THEN Len(selection) - target ELSE 0

\* C14 (scorer): for every non-empty selection score_selection returns the
\* homogeneity term (6 when every dish has the cluster label of the first
\* dish, else 2 * max(0, same - 1) - (total - same)), plus the preference
\* term (2 per wa dish and 1 per chu dish under wa, 2 per matching dish under
\* yo, chu or sonota, 0 under automatic or no preference), minus
\* max(0, number of dishes - target_dish_count).
C14_Scorer ==
    (pc = "returned" /\ "score_selection" \in called /\ selection # <<>>) =>
        picked.score = ClaimedHomogeneity + ClaimedPreference - ClaimedPenalty

\* under the preference wa a selection of a chu, a wa and a yo dish, for a
\* target of fewer dishes, has been scored
C14_Witness ==
    /\ pc = "returned"
    /\ "score_selection" \in called
    /\ preferred = "wa"
    /\ Len(selection) = 3
    /\ selection[1].it.genre = "chu"
    /\ selection[2].it.genre = "wa"
    /\ selection[3].it.genre = "yo"
    /\ ClaimedPenalty > 0
    /\ picked.score = 2 - 1 + 2 + 1 - ClaimedPenalty

---------------------------------------------------------------------------
(* Properties of the weights of pick_menu_from_candidates *)

\* C18 (no hard exclusion in the selector): for every non-empty candidate
\* list, pick mode and session memory a call is made with, every candidate of
\* the working pool has a final weight that is strictly positive and not
\* below 1e-6, and the possible results of the draw are all the candidates of
\* the working pool; what a call has returned is a candidate of that pool.
C18_NoHardExclusion ==
    candidates # <<>> =>
        /\ pc = "idle" =>
              LET pool == PickPool(candidates, pick_mode)
              IN  /\ \A i \in 1..Len(pool) :
                        \A w \in {FinalWeight(pool[i], pool, pick_mode,
                                              recent_menu_sigs, last_menu_ids)} :
                            /\ w.num > 0
                            /\ w.dens[1] > 0
                            /\ w.dens[2] > 0
                            /\ ~BelowFloor(w)
                  /\ pick_menu_from_candidates(candidates, pick_mode,
                                               recent_menu_sigs, last_menu_ids)
                        = Range(pool)
        /\ pc = "returned" =>
              picked \in Range(PickPool(candidates, pick_mode))

C18_Witness ==
    /\ pc = "returned"
    /\ "pick_menu_from_candidates" \in called
    /\ Len(candidates) >= 2
    /\ InSeq(picked.sig, recent_menu_sigs)
    /\ picked.ids = last_menu_ids
    /\ picked.ids # <<>>

====
